---- MODULE Spec2Model ----
(***************************************************************************)
(* HTMLCountryRenderer (packages/malloy-render/src/html/                   *)
(* country_shape_map.ts): the transformation of a tabular result into a    *)
(* layered vega-lite choropleth spec.                                      *)
(*                                                                         *)
(* The renderer keeps no mutable state of its own.  The state machine      *)
(* records one call at a time: which public method was called (op), its    *)
(* argument (arg), the internal steps the call went through (steps) and    *)
(* how it ended (ret: a returned value or a thrown error).                 *)
(***************************************************************************)
EXTENDS Integers, Sequences, FiniteSets, TLC

VARIABLES op, arg, steps, ret

vars == <<op, arg, steps, ret>>

(***************************************************************************)
(* Bounds of the model.                                                    *)
(***************************************************************************)
MaxFields == 3
MaxRows == 3
MaxCells == 6

(***************************************************************************)
(* JavaScript values that flow through the renderer, tagged by type.       *)
(***************************************************************************)
Num(n) == [kind |-> "number", value |-> n]
Str(s) == [kind |-> "string", value |-> s]
Undefined == [kind |-> "undefined", value |-> "undefined"]
Inherited(key) == [kind |-> "function", value |-> key]

Return(v) == [kind |-> "return", value |-> v]
Throw(msg) == [kind |-> "throw", value |-> msg]

NullStructError == "Expected struct value not to be null."
InvalidDataError == "Invalid data for shape map"
InvalidFieldTypeError == "Invalid field type for shape map."
UndefinedPropertyError == "TypeError: Cannot read properties of undefined (reading 'name')"

(***************************************************************************)
(* Fields and explores.  An explore is the ordered list of its intrinsic   *)
(* fields; a field has a name, unique within its explore, and a kind.      *)
(* "struct" is the one non-atomic kind; "boolean" stands for the atomic    *)
(* kinds that are neither string, number, date nor timestamp.              *)
(***************************************************************************)
FieldKinds == {"string", "number", "date", "timestamp", "boolean", "struct"}
AtomicKinds == {"string", "number", "date", "timestamp", "boolean"}
FieldNames == <<"country", "value", "note", "extra", "more", "other">>

isAtomicField(field) == field.kind \in AtomicKinds

ExploresOfLen(n) ==
  {[i \in 1..n |-> [name |-> FieldNames[i], kind |-> ks[i]]] : ks \in [1..n -> FieldKinds]}

Explores == UNION {ExploresOfLen(n) : n \in 0..MaxFields}

(***************************************************************************)
(* The Country Code Table: country display name -> numeric identifier.     *)
(* It is a plain object, so a property read also finds what the object     *)
(* inherits from Object.prototype.                                         *)
(***************************************************************************)
COUNTRY_CODES == [n \in {"France", "Japan"} |-> IF n = "France" THEN 250 ELSE 392]

ObjectPrototypeKeys == {"toString"}

\* COUNTRY_CODES[key] as JavaScript evaluates it.
CountryCodesGet(key) ==
  IF key \in DOMAIN COUNTRY_CODES THEN Num(COUNTRY_CODES[key])
  ELSE IF key \in ObjectPrototypeKeys THEN Inherited(key)
  ELSE Undefined

(***************************************************************************)
(* Data cells.  The kind of a cell is the kind of its field, or null.      *)
(***************************************************************************)
RegionStrings == {"France", "Japan", "Atlantis", "france", "toString"}
OtherStrings == {"France", "n/a"}
Numbers == {0, 10}

NullCell == [kind |-> "null", value |-> "null"]

CellsOf(kind, strings) ==
  {NullCell} \cup
    (CASE kind = "string" -> {Str(s) : s \in strings}
       [] kind = "number" -> {Num(n) : n \in Numbers}
       [] kind = "struct" -> {[kind |-> "array", value |-> "nested"]}
       [] OTHER -> {[kind |-> kind, value |-> "opaque"]})

\* A DataColumn: a cell together with the back-reference to its field.
DataColumn(cell, field, parentExplore) ==
  [kind |-> cell.kind, value |-> cell.value, field |-> field, parentExplore |-> parentExplore]


(***************************************************************************)
(* Field Role Resolver: explore.intrinsicFields[0] and [1].  An index past *)
(* the end of a JavaScript array reads undefined.                          *)
(***************************************************************************)
getRegionField(explore) == IF Len(explore) >= 1 THEN explore[1] ELSE Undefined

getColorField(explore) == IF Len(explore) >= 2 THEN explore[2] ELSE Undefined

(***************************************************************************)
(* getDataValue: the value a cell contributes to its mapped row.           *)
(***************************************************************************)
\* getDataValue without the region-field test: every string is looked up.
getDataValueLookupAll(data) ==
  IF data.kind = "number" THEN Return(Num(data.value))
  ELSE IF data.kind = "string" THEN
    LET id == CountryCodesGet(data.value)
    IN  IF id = Undefined THEN Return(Undefined) ELSE Return(id)
  ELSE IF data.kind = "null" THEN Return(Undefined)
  ELSE Throw(InvalidFieldTypeError)

\* getDataValue that ignores a cell of any other kind as it ignores a null.
getDataValueIgnoreOthers(data) ==
  IF data.kind = "number" THEN Return(Num(data.value))
  ELSE IF data.kind = "string" THEN
    IF data.field = getRegionField(data.parentExplore) THEN
      LET id == CountryCodesGet(data.value)
      IN  IF id = Undefined THEN Return(Undefined) ELSE Return(id)
    ELSE Return(Str(data.value))
  ELSE Return(Undefined)

getDataValue(data) ==
  IF data.kind = "number" THEN Return(Num(data.value))
  ELSE IF data.kind = "string" THEN
    IF data.field = getRegionField(data.parentExplore) THEN
      LET id == CountryCodesGet(data.value)
      IN  IF id = Undefined THEN Return(Undefined) ELSE Return(id)
    ELSE Return(Str(data.value))
  ELSE IF data.kind = "null" THEN Return(Undefined)
  ELSE Throw(InvalidFieldTypeError)

\* getDataType with the region field classified like any other string field.
getDataTypeRegionNominal(field, parentExplore) ==
  IF isAtomicField(field) /\ field.kind \in {"date", "timestamp", "string"}
  THEN Return("nominal")
  ELSE IF isAtomicField(field) /\ field.kind = "number" THEN Return("quantitative")
  ELSE Throw(InvalidFieldTypeError)

(***************************************************************************)
(* getDataType: the encoding type of a field.                              *)
(***************************************************************************)
getDataType(field, parentExplore) ==
  IF isAtomicField(field) /\ field.kind \in {"date", "timestamp"} THEN Return("nominal")
  ELSE IF isAtomicField(field) /\ field.kind = "string" THEN
    IF field = getRegionField(parentExplore) THEN Return("quantitative")
    ELSE Return("nominal")
  ELSE IF isAtomicField(field) /\ field.kind = "number" THEN Return("quantitative")
  ELSE \* not atomic, or atomic of another kind: falls through to the throw
    Throw(InvalidFieldTypeError)

(***************************************************************************)
(* mapData (HTMLChartRenderer): one mapped row per source row, holding     *)
(* getDataValue of the row's cell under each intrinsic field's name; a     *)
(* throw of getDataValue propagates.                                       *)
(***************************************************************************)
mapData(data) ==
  LET fields == data.field
      names == {fields[i].name : i \in 1..Len(fields)}
      \* a later assignment to the same property name overwrites an earlier one
      last(n) == CHOOSE i \in 1..Len(fields) :
                   fields[i].name = n /\ \A j \in (i+1)..Len(fields) : fields[j].name # n
      cell(r, i) == getDataValue(DataColumn(data.rows[r][i], fields[i], fields))
  IN  IF \E r \in 1..Len(data.rows), i \in 1..Len(fields) : cell(r, i).kind = "throw"
      THEN Throw(InvalidFieldTypeError)
      ELSE Return([r \in 1..Len(data.rows) |-> [n \in names |-> cell(r, last(n)).value]])

\* A filter predicate that tests truthiness: row => row[regionField.name].
KeepRowTruthy(row, regionField) ==
  row[regionField.name] \notin {Undefined, Num(0), Str("")}

\* The filter predicate: row => row[regionField.name] !== undefined.
KeepRow(row, regionField) == row[regionField.name] # Undefined

\* A filter that collects the surviving rows in reverse.
FilterRowsReversed(mapped, regionField) ==
  LET kept == SelectSeq(mapped, LAMBDA row : KeepRow(row, regionField))
  IN  [k \in 1..Len(kept) |-> kept[Len(kept) + 1 - k]]

\* Array.prototype.filter with that predicate.
FilterRows(mapped, regionField) ==
  SelectSeq(mapped, LAMBDA row : KeepRow(row, regionField))


(***************************************************************************)
(* getVegaLiteSpec.                                                        *)
(***************************************************************************)
\* The guards in the other order: null is caught by the array test.
CheckInputArrayFirst(data) ==
  IF data.kind # "array" THEN InvalidDataError
  ELSE IF data.kind = "null" THEN NullStructError
  ELSE "ok"

\* The two guards at the head of getVegaLiteSpec: the error thrown, or "ok".
CheckInput(data) ==
  IF data.kind = "null" THEN NullStructError
  ELSE IF data.kind # "array" THEN InvalidDataError
  ELSE "ok"

\* colorType: the color field's encoding type, undefined without a color field.
ColorType(colorField, explore) ==
  IF colorField # Undefined THEN getDataType(colorField, explore) ELSE Return(Undefined)

\* colorDef reading colorField?.name: an undefined colorField does not throw.
ColorDefOptional(colorField, colorType) ==
  Return([field |-> IF colorField = Undefined THEN "undefined" ELSE colorField.name,
          type |-> colorType,
          axis |-> [title |-> <<"formatTitle", "undefined">>],
          scale |-> <<"getColorScale", colorType, FALSE>>])

\* colorDef; reading colorField.name of an undefined colorField throws.
ColorDef(colorField, colorType) ==
  IF colorField = Undefined THEN Throw(UndefinedPropertyError)
  ELSE Return([field |-> colorField.name,
               type |-> colorType,
               axis |-> [title |-> <<"formatTitle", colorField.name>>],
               scale |-> <<"getColorScale", colorType, FALSE>>])

SphereLayer ==
  [data |-> "sphere", mark |-> [type |-> "geoshape", fill |-> "aliceblue"]]

BaseMapLayer ==
  [data |-> "world.countries",
   mark |-> [type |-> "geoshape", fill |-> "mintcream", stroke |-> "black"]]

OverlayLayer(regionField, colorDef) ==
  [transform |-> [lookup |-> regionField.name, from |-> "world.countries",
                  key |-> "id", as |-> "geo"],
   mark |-> "geoshape",
   encoding |-> [shape |-> [field |-> "geo", type |-> "geojson"], color |-> colorDef]]

\* A spec whose data overlay is left out when no row survives.
BuildSpecNoEmptyOverlay(mapped, regionField, colorDef) ==
  [size |-> "getSize()",
   data |-> [values |-> mapped],
   projection |-> [type |-> "mercator"],
   layer |-> IF mapped = <<>> THEN <<SphereLayer, BaseMapLayer>>
             ELSE <<SphereLayer, BaseMapLayer, OverlayLayer(regionField, colorDef)>>]

\* The returned object literal.
BuildSpec(mapped, regionField, colorDef) ==
  [size |-> "getSize()",
   data |-> [values |-> mapped],
   projection |-> [type |-> "mercator"],
   layer |-> <<SphereLayer, BaseMapLayer, OverlayLayer(regionField, colorDef)>>]

\* getVegaLiteSpec with the rows mapped before the color field is classified.
getVegaLiteSpecMapFirst(data) ==
  IF CheckInput(data) # "ok" THEN [ret |-> Throw(CheckInput(data)), steps |-> <<>>]
  ELSE
    LET regionField == getRegionField(data.field)
        colorField == getColorField(data.field)
        mapped == mapData(data)
        colorType == ColorType(colorField, data.field)
        classified == IF colorField # Undefined THEN <<"classify">> ELSE <<>>
        colorDef == ColorDef(colorField, colorType.value)
    IN  IF mapped.kind = "throw" THEN
          [ret |-> mapped, steps |-> <<"roles", "mapData">>]
        ELSE IF regionField = Undefined THEN
          [ret |-> Throw(UndefinedPropertyError), steps |-> <<"roles", "mapData", "filter">>]
        ELSE IF colorType.kind = "throw" THEN
          [ret |-> colorType, steps |-> <<"roles", "mapData", "filter">> \o classified]
        ELSE IF colorDef.kind = "throw" THEN
          [ret |-> colorDef,
           steps |-> <<"roles", "mapData", "filter">> \o classified \o <<"colorDef">>]
        ELSE
          [ret |-> Return(BuildSpec(FilterRows(mapped.value, regionField),
                                    regionField, colorDef.value)),
           steps |-> <<"roles", "mapData", "filter">> \o classified
                       \o <<"colorDef", "assemble">>]

\* The whole call: how it ends (ret) and the steps it went through (steps).
getVegaLiteSpec(data) ==
  IF CheckInput(data) # "ok" THEN [ret |-> Throw(CheckInput(data)), steps |-> <<>>]
  ELSE
    LET regionField == getRegionField(data.field)
        colorField == getColorField(data.field)
        colorType == ColorType(colorField, data.field)
        classified == IF colorField # Undefined THEN <<"classify">> ELSE <<>>
        colorDef == ColorDef(colorField, colorType.value)
        mapped == mapData(data)
    IN  IF colorType.kind = "throw" THEN
          [ret |-> colorType, steps |-> <<"roles">> \o classified]
        ELSE IF colorDef.kind = "throw" THEN
          [ret |-> colorDef, steps |-> <<"roles">> \o classified \o <<"colorDef">>]
        ELSE IF mapped.kind = "throw" THEN
          [ret |-> mapped, steps |-> <<"roles">> \o classified \o <<"colorDef", "mapData">>]
        ELSE IF regionField = Undefined THEN
          \* regionField.name is read by the filter callback for each row and
          \* by the overlay layer's lookup
          [ret |-> Throw(UndefinedPropertyError),
           steps |-> <<"roles">> \o classified \o <<"colorDef", "mapData", "filter">>
                       \o (IF mapped.value = <<>> THEN <<"assemble">> ELSE <<>>)]
        ELSE
          [ret |-> Return(BuildSpec(FilterRows(mapped.value, regionField),
                                    regionField, colorDef.value)),
           steps |-> <<"roles">> \o classified
                       \o <<"colorDef", "mapData", "filter", "assemble">>]

(***************************************************************************)
(* The inputs of the calls.                                                *)
(***************************************************************************)
RECURSIVE RowsOf(_, _)
\* The rows of an explore's first n fields: one cell per field, of its kind.
RowsOf(explore, n) ==
  IF n = 0 THEN {<<>>}
  ELSE {Append(r, c) : r \in RowsOf(explore, n - 1),
                       c \in CellsOf(explore[n].kind,
                                     IF n = 1 THEN RegionStrings ELSE OtherStrings)}

RowSeqs(explore) ==
  UNION {[1..m -> RowsOf(explore, Len(explore))] :
           m \in {k \in 0..MaxRows : k * Len(explore) <= MaxCells}}

TopLevelKinds == {"null", "array", "record", "number"}

(***************************************************************************)
(* The state machine.                                                      *)
(***************************************************************************)
Init ==
  /\ op = "none"
  /\ arg = Undefined
  /\ steps = <<>>
  /\ ret = Undefined

\* getVegaLiteSpec called on an array of rows.
Render ==
  /\ op = "none"
  /\ \E e \in Explores :
       \E rs \in RowSeqs(e) :
         LET data == [kind |-> "array", field |-> e, rows |-> rs]
             out == getVegaLiteSpec(data)
         IN  /\ op' = "getVegaLiteSpec"
             /\ arg' = data
             /\ steps' = out.steps
             /\ ret' = out.ret

\* getVegaLiteSpec called on a top-level value that is null or not an array.
RenderNonArray ==
  /\ op = "none"
  /\ \E e \in Explores, k \in TopLevelKinds \ {"array"} :
       LET data == [kind |-> k, field |-> e, rows |-> <<>>]
           out == getVegaLiteSpec(data)
       IN  /\ op' = "getVegaLiteSpec"
           /\ arg' = data
           /\ steps' = out.steps
           /\ ret' = out.ret

\* getDataType called on a field of an explore.
Classify ==
  /\ op = "none"
  /\ \E e \in Explores :
       \E i \in 1..Len(e) :
         /\ op' = "getDataType"
         /\ arg' = [field |-> e[i], parentExplore |-> e]
         /\ steps' = <<>>
         /\ ret' = getDataType(e[i], e)

\* getDataValue called on a cell of a field of an explore.
MapCell ==
  /\ op = "none"
  /\ \E e \in Explores :
       \E i \in 1..Len(e) :
         \E c \in CellsOf(e[i].kind, RegionStrings) :
           /\ op' = "getDataValue"
           /\ arg' = DataColumn(c, e[i], e)
           /\ steps' = <<>>
           /\ ret' = getDataValue(DataColumn(c, e[i], e))

\* The call has returned or thrown; the renderer is ready for the next one.
CallEnds ==
  /\ op # "none"
  /\ op' = "none"
  /\ arg' = Undefined
  /\ steps' = <<>>
  /\ ret' = Undefined

Next == Render \/ RenderNonArray \/ Classify \/ MapCell \/ CallEnds

Spec == Init /\ [][Next]_vars


(***************************************************************************)
(* Vocabulary of the properties.                                           *)
(***************************************************************************)
\* The last call was getVegaLiteSpec and it returned a spec.
Rendered == op = "getVegaLiteSpec" /\ ret.kind = "return"

\* The last call was getVegaLiteSpec on an array of rows.
RenderedArray == op = "getVegaLiteSpec" /\ arg.kind = "array"

\* The region cell of an input row is a string with an own entry in the table.
KnownRegion(row) == row[1].kind = "string" /\ row[1].value \in DOMAIN COUNTRY_CODES

\* The region cell of an input row is a string without an own entry in the table.
UnknownRegion(row) == row[1].kind = "string" /\ row[1].value \notin DOMAIN COUNTRY_CODES

(***************************************************************************)
(* C1: in a returned spec, every input row whose region cell is a string   *)
(* with an entry in the Country Code Table has a row in data.values whose  *)
(* region value is the entry's identifier and whose every other field      *)
(* holds the cell's number or string unchanged, or undefined for a null    *)
(* cell.                                                                   *)
(***************************************************************************)
C1_KnownRegionRowsAreMapped ==
  Rendered =>
    \A r \in 1..Len(arg.rows) :
      KnownRegion(arg.rows[r]) =>
        \E k \in 1..Len(ret.value.data.values) :
          LET out == ret.value.data.values[k]
              row == arg.rows[r]
          IN  /\ out[arg.field[1].name] = Num(COUNTRY_CODES[row[1].value])
              /\ \A i \in 2..Len(arg.field) :
                   /\ row[i].kind \in {"number", "string", "null"}
                   /\ out[arg.field[i].name] =
                        IF row[i].kind = "null" THEN Undefined
                        ELSE [kind |-> row[i].kind, value |-> row[i].value]

\* A spec was returned for a known region whose row has a null cell, a
\* string cell and a dropped neighbour.
C1_Witness ==
  /\ Rendered
  /\ Len(arg.field) = 3
  /\ \E r \in 1..Len(arg.rows) :
       /\ KnownRegion(arg.rows[r])
       /\ arg.rows[r][2].kind = "null"
       /\ arg.rows[r][3] = Str("France")
  /\ Len(ret.value.data.values) < Len(arg.rows)


(***************************************************************************)
(* C2: in a returned spec, no row of data.values derives from an input row *)
(* whose region string has no mapping in the Country Code Table, and the   *)
(* number of rows of data.values is the number of input rows minus the     *)
(* number of input rows whose region is unresolvable.  A null region cell  *)
(* is counted with the unresolvable ones: its resolved value is absent     *)
(* too, so the property is read in the sense most favourable to it.        *)
(***************************************************************************)
C2_UnknownRegionRowsAreDropped ==
  Rendered =>
    LET values == ret.value.data.values
        images == mapData(arg).value
        unknown == {r \in 1..Len(arg.rows) : UnknownRegion(arg.rows[r])}
        absent == {r \in 1..Len(arg.rows) : arg.rows[r][1].kind = "null"}
    IN  /\ \A k \in 1..Len(values) :
             \E r \in (1..Len(arg.rows)) \ unknown : values[k] = images[r]
        /\ Len(values) = Len(arg.rows) - Cardinality(unknown \cup absent)

(***************************************************************************)
(* C3: the rows of data.values are the mapped images of a subsequence of   *)
(* the input rows, in the order of their source rows: some strictly        *)
(* increasing choice of input positions yields exactly data.values.        *)
(***************************************************************************)
C3_FilterIsStable ==
  Rendered =>
    LET values == ret.value.data.values
        images == mapData(arg).value
    IN  \E f \in [1..Len(values) -> 1..Len(arg.rows)] :
          /\ \A j, k \in 1..Len(values) : j < k => f[j] < f[k]
          /\ \A k \in 1..Len(values) : values[k] = images[f[k]]

\* Two different rows survive and a row between or around them is dropped.
C3_Witness ==
  /\ Rendered
  /\ Len(arg.rows) = 3
  /\ Len(ret.value.data.values) = 2
  /\ ret.value.data.values[1] # ret.value.data.values[2]

(***************************************************************************)
(* C4: getDataType depends on the field's kind and role only: date and     *)
(* timestamp give nominal, a string region field quantitative, any other   *)
(* string field nominal, a number field quantitative, every other kind     *)
(* the 'Invalid field type' failure; ordinal is never returned.            *)
(***************************************************************************)
C4_Classification ==
  op = "getDataType" =>
    LET kind == arg.field.kind
        isRegion == arg.field = arg.parentExplore[1]
    IN  /\ ret = CASE kind \in {"date", "timestamp"} -> Return("nominal")
                   [] kind = "string" /\ isRegion -> Return("quantitative")
                   [] kind = "string" /\ ~isRegion -> Return("nominal")
                   [] kind = "number" -> Return("quantitative")
                   [] OTHER -> Throw(InvalidFieldTypeError)
        /\ ret # Return("ordinal")

\* getDataType was called on a string field that is the region field.
C4_Witness ==
  /\ op = "getDataType"
  /\ arg.field.kind = "string"
  /\ arg.field = arg.parentExplore[1]
  /\ Len(arg.parentExplore) >= 2
  /\ ret = Return("quantitative")

(***************************************************************************)
(* C5: every returned spec has exactly three layers, in the order sphere   *)
(* background, base country map, data overlay, and the mercator            *)
(* projection, whatever the number of input and surviving rows.            *)
(***************************************************************************)
C5_ThreeLayers ==
  Rendered =>
    LET layer == ret.value.layer
    IN  /\ Len(layer) = 3
        /\ layer[1] = SphereLayer
        /\ layer[2] = BaseMapLayer
        /\ DOMAIN layer[3] = {"transform", "mark", "encoding"}
        /\ layer[3].transform.lookup = arg.field[1].name
        /\ layer[3].encoding.color.field = arg.field[2].name
        /\ ret.value.projection = [type |-> "mercator"]

\* A spec was returned although every input row was dropped.
C5_Witness ==
  /\ Rendered
  /\ Len(arg.rows) = 2
  /\ ret.value.data.values = <<>>
  /\ Len(ret.value.layer) = 3

(***************************************************************************)
(* C6: with fewer than two top-level fields getVegaLiteSpec throws and     *)
(* returns no spec, whatever the rows contain.                             *)
(***************************************************************************)
C6_FewerThanTwoFieldsFails ==
  (op = "getVegaLiteSpec" /\ Len(arg.field) < 2) => ret.kind = "throw"

\* A one-field array whose only row has a known region was rejected at colorDef.
C6_Witness ==
  /\ RenderedArray
  /\ Len(arg.field) = 1
  /\ Len(arg.rows) = 1
  /\ KnownRegion(arg.rows[1])
  /\ ret = Throw(UndefinedPropertyError)

(***************************************************************************)
(* C7: the 'Invalid field type' failure is raised only when some cell's    *)
(* kind or the color field's kind lies outside {number, string, date,      *)
(* timestamp, null}: an array result with at least two fields, a color     *)
(* field of kind number, string, date or timestamp and only cells of kind  *)
(* number, string, date, timestamp or null returns a spec.                 *)
(***************************************************************************)
C7_ScalarResultsRender ==
  LET scalar == {"number", "string", "date", "timestamp"}
      cellsScalar == \A r \in 1..Len(arg.rows) : \A i \in 1..Len(arg.field) :
                       arg.rows[r][i].kind \in scalar \cup {"null"}
  IN  RenderedArray =>
        /\ ret = Throw(InvalidFieldTypeError) =>
             \/ ~cellsScalar
             \/ Len(arg.field) >= 2 /\ arg.field[2].kind \notin scalar
        /\ (Len(arg.field) >= 2 /\ arg.field[2].kind \in scalar /\ cellsScalar) =>
             ret.kind = "return"

(***************************************************************************)
(* C8: a top-level value that is null, or is not an array, makes           *)
(* getVegaLiteSpec throw its input-shape failure (the null failure for     *)
(* null, the array failure otherwise) before role resolution,              *)
(* classification or row mapping, whatever the field list.                 *)
(***************************************************************************)
C8_InputShapeChecksFirst ==
  op = "getVegaLiteSpec" =>
    /\ arg.kind = "null" => ret = Throw(NullStructError) /\ steps = <<>>
    /\ arg.kind \notin {"null", "array"} => ret = Throw(InvalidDataError) /\ steps = <<>>
    /\ arg.kind = "array" => ret \notin {Throw(NullStructError), Throw(InvalidDataError)}

\* A null top-level value whose field list would otherwise classify and map.
C8_Witness ==
  /\ op = "getVegaLiteSpec"
  /\ arg.kind = "null"
  /\ Len(arg.field) = 2
  /\ arg.field[2].kind = "number"
  /\ ret = Throw(NullStructError)

(***************************************************************************)
(* C9: getDataValue of a string cell of the region field is the entry's    *)
(* identifier when the string is an own entry of the Country Code Table    *)
(* and undefined for every other string, never another value or a throw.   *)
(***************************************************************************)
C9_ExactLookup ==
  (op = "getDataValue" /\ arg.kind = "string" /\ arg.field = arg.parentExplore[1]) =>
    ret = IF arg.value \in DOMAIN COUNTRY_CODES
          THEN Return(Num(COUNTRY_CODES[arg.value]))
          ELSE Return(Undefined)

\* Some cell of the input rows is neither a number, a string nor a null.
HasOtherCell ==
  \E r \in 1..Len(arg.rows) : \E i \in 1..Len(arg.field) :
    arg.rows[r][i].kind \notin {"number", "string", "null"}

(***************************************************************************)
(* C11 as stated: a cell that is neither number, string nor null, in any   *)
(* field of any row, makes getVegaLiteSpec throw the 'Invalid field type'  *)
(* failure and return no spec.                                             *)
(***************************************************************************)
C11_OtherCellAborts_Original ==
  (RenderedArray /\ HasOtherCell) => ret = Throw(InvalidFieldTypeError)

(***************************************************************************)
(* C11 as amended: such a cell always makes getVegaLiteSpec throw and      *)
(* return no spec; the failure thrown is the 'Invalid field type' failure  *)
(* when the result has at least two top-level fields (with fewer, the      *)
(* render has already failed on the missing color field).                  *)
(***************************************************************************)
C11_OtherCellAborts ==
  (RenderedArray /\ HasOtherCell) =>
    /\ ret.kind = "throw"
    /\ Len(arg.field) >= 2 => ret = Throw(InvalidFieldTypeError)

\* The offending cell is in the third field of a row whose region is
\* unresolvable, the color field is classifiable, and the render was aborted.
C11_Witness ==
  /\ RenderedArray
  /\ Len(arg.field) = 3
  /\ arg.field[2].kind = "number"
  /\ \E r \in 1..Len(arg.rows) :
       /\ arg.rows[r][1] = Str("Atlantis")
       /\ arg.rows[r][2].kind = "number"
       /\ arg.rows[r][3].kind = "array"
       /\ \A q \in (1..Len(arg.rows)) \ {r} : \A i \in 1..3 :
            arg.rows[q][i].kind \in {"number", "string", "null"}
  /\ Len(arg.rows) = 2
  /\ ret = Throw(InvalidFieldTypeError)
  /\ steps = <<"roles", "classify", "colorDef", "mapData">>

(***************************************************************************)
(* C12: the country-code lookup is applied only to string cells of the     *)
(* region field: getDataValue returns a string cell of any other field     *)
(* unchanged, also when its text is an entry of the Country Code Table,    *)
(* and a numeric cell of any field, the region field included, unchanged.  *)
(***************************************************************************)
C12_LookupOnlyForRegionStrings ==
  op = "getDataValue" =>
    /\ (arg.kind = "string" /\ arg.field # arg.parentExplore[1]) =>
         ret = Return(Str(arg.value))
    /\ arg.kind = "number" => ret = Return(Num(arg.value))

\* getDataValue was called on a string cell of a non-region field whose text
\* is a table entry.
C12_Witness ==
  /\ op = "getDataValue"
  /\ arg.kind = "string"
  /\ arg.value \in DOMAIN COUNTRY_CODES
  /\ arg.field # arg.parentExplore[1]
  /\ ret = Return(Str(arg.value))

\* Step a occurs in steps, and before every occurrence of step b.
Precedes(a, b) ==
  \A j \in 1..Len(steps) :
    steps[j] = b => \E i \in 1..(j - 1) : steps[i] = a

(***************************************************************************)
(* C13 as stated: within one render the rows are mapped before the color   *)
(* field is classified (role resolution, per-row mapping, classification,  *)
(* assembly): the color field is never classified before the rows have     *)
(* been mapped.                                                            *)
(***************************************************************************)
C13_MapBeforeClassify_Original ==
  op = "getVegaLiteSpec" =>
    /\ Precedes("roles", "mapData")
    /\ Precedes("mapData", "classify")
    /\ Precedes("classify", "assemble")

(***************************************************************************)
(* C13 as amended: within one render the steps occur in the order role     *)
(* resolution, classification of the color field, per-row mapping, spec    *)
(* assembly: the rows are never mapped before the color field has been     *)
(* classified, so a failure of the classification takes precedence over a  *)
(* failure of row mapping (the rows are then not mapped at all).           *)
(***************************************************************************)
C13_ClassifyBeforeMap ==
  op = "getVegaLiteSpec" =>
    /\ Precedes("roles", "classify")
    /\ Precedes("classify", "mapData")
    /\ Precedes("mapData", "assemble")
    /\ (arg.kind = "array" /\ Len(arg.field) >= 2
          /\ arg.field[2].kind \notin {"string", "number", "date", "timestamp"}) =>
         /\ ret = Throw(InvalidFieldTypeError)
         /\ steps = <<"roles", "classify">>

\* Both failures are possible (a color field that cannot be classified and a
\* cell that cannot be mapped) and the render stopped at the classification.
C13_Witness ==
  /\ RenderedArray
  /\ Len(arg.field) >= 2
  /\ arg.field[2].kind = "boolean"
  /\ Len(arg.rows) >= 1
  /\ arg.rows[1][1].kind = "date"
  /\ steps = <<"roles", "classify">>
  /\ ret = Throw(InvalidFieldTypeError)

(***************************************************************************)
(* C14: in every returned spec, every row of data.values has a region      *)
(* value that is present and is a number; no surviving row carries a       *)
(* string, a null or any other non-numeric value in the region field.      *)
(***************************************************************************)
C14_RegionValuesAreNumbers ==
  Rendered =>
    \A k \in 1..Len(ret.value.data.values) :
      ret.value.data.values[k][arg.field[1].name].kind = "number"

\* The resolved region value of an input row is absent: the region cell is
\* null, or it is a string for which the table read yields undefined.
RegionAbsent(row) ==
  \/ row[1].kind = "null"
  \/ row[1].kind = "string" /\ CountryCodesGet(row[1].value) = Undefined

(***************************************************************************)
(* C15: a row is dropped if and only if its resolved region value is       *)
(* absent (null region cell, or region string resolved to undefined): the  *)
(* rows of data.values are the images of exactly the input rows whose      *)
(* resolved region value is present, so a row with region value 0 is kept  *)
(* and no value of a non-region field drops a row.                         *)
(***************************************************************************)
C15_DroppedIffRegionAbsent ==
  Rendered =>
    LET images == mapData(arg).value
        kept == SelectSeq([r \in 1..Len(arg.rows) |-> r],
                          LAMBDA r : ~RegionAbsent(arg.rows[r]))
    IN  ret.value.data.values = [k \in 1..Len(kept) |-> images[kept[k]]]

\* Of three rows, the one with region value 0 and the one with a null color
\* cell were kept and the one with a null region cell was dropped.
C15_Witness ==
  /\ Rendered
  /\ Len(arg.rows) = 3
  /\ \E a, b, c \in 1..3 :
       /\ arg.rows[a][1] = Num(0)
       /\ arg.rows[b][1] = Num(10) /\ arg.rows[b][2].kind = "null"
       /\ arg.rows[c][1].kind = "null" /\ arg.rows[c][2] = Num(10)
  /\ Len(ret.value.data.values) = 2
  /\ \E k \in 1..2 : ret.value.data.values[k][arg.field[1].name] = Num(0)

====
